---------------------------- MODULE Spec2Model ----------------------------
(***************************************************************************)
(* stiny: tiny-URL records (stiny/url.py) and the storage controllers      *)
(* (stiny/controllers.py, stiny/controllers/controller.py, s3.py, rcf.py). *)
(*                                                                         *)
(* A Python string is a sequence of one-character strings, None is the     *)
(* one-element sequence <<"None">>, which is no string of characters.      *)
(***************************************************************************)
EXTENDS Integers, Sequences, FiniteSets, TLC

\* ------------------------------------------------------------- bounds
\* longest raw tiny text handed to the tiny_text setter
MaxLen == 3
\* largest max_retries a controller is constructed with
MaxRetries == 4
\* largest initial_tiny_length a controller is constructed with
MaxInitialLength == 1
\* most objects the bucket holds when a put is started
MaxObjects == 2

\* ------------------------------------------------------------- strings
None == <<"None">>

\* string.lowercase and string.digits, one representative each
Lowercase == {"a"}
Digits == {"7"}
\* the characters a caller can type: the expiration separator 'T', another
\* uppercase letter and a punctuation mark besides the generator's alphabet
Uppercase == {"T", "B"}
Chars == Lowercase \cup Digits \cup Uppercase \cup {"-"}

Range(s) == {s[i] : i \in 1..Len(s)}

Strings(alphabet, n) == UNION {[1..k -> alphabet] : k \in 0..n}

\* str.isalnum(): at least one character, all letters or digits
isalnum(s) == Len(s) > 0 /\ Range(s) \subseteq (Lowercase \cup Digits \cup Uppercase)

\* str.islower(): no uppercase character and at least one cased character
islower(s) == Range(s) \cap Uppercase = {} /\ Range(s) \cap Lowercase # {}

\* the places of 'T' in s
Ts(s) == {i \in 1..Len(s) : s[i] = "T"}

\* ------------------------------------------------------------- StaticURL
\* targets accepted by StaticURL._url_valid
Targets == {"http://example.com", "http://www.google.com/"}

\* ---- StaticURL._url_valid: the regular expression, matched from the
\* start of the target.  A matcher takes the set P of places the match
\* may have reached (the index of the next character) and gives the places
\* it may reach next, so that every way of matching is followed.
Chr(s, i) == SubSeq(s, i, i)

LowerLetters == "abcdefghijklmnopqrstuvwxyz"
UpperLetters == "ABCDEFGHIJKLMNOPQRSTUVWXYZ"
DecimalDigits == "0123456789"

Chars_of(s) == {Chr(s, i) : i \in 1..Len(s)}

\* [A-Z] under re.IGNORECASE, \d, [A-Z0-9], [A-Z0-9-], \s of a byte string
LetterChars == Chars_of(LowerLetters) \cup Chars_of(UpperLetters)
DigitChars == Chars_of(DecimalDigits)
AlnumChars == LetterChars \cup DigitChars
AlnumHyphenChars == AlnumChars \cup {"-"}
SpaceChars == {" ", "\t", "\n", "\r", "\f"}

\* the two cases of a character of the pattern under re.IGNORECASE
BothCases(c) ==
    {c} \cup {Chr(UpperLetters, i) : i \in {j \in 1..26 : Chr(LowerLetters, j) = c}}

\* one character of the class `chars`
OneOf(s, P, chars) == {q + 1 : q \in {r \in P : r <= Len(s) /\ Chr(s, r) \in chars}}

\* \S: one character that is not whitespace
NonSpace(s, P) == {q + 1 : q \in {r \in P : r <= Len(s) /\ Chr(s, r) \notin SpaceChars}}

\* the literal w, in either case
RECURSIVE Literal(_, _, _)
Literal(s, P, w) ==
    IF w = "" THEN P
    ELSE Literal(s, OneOf(s, P, BothCases(Chr(w, 1))), SubSeq(w, 2, Len(w)))

\* chars{lo,hi}
RECURSIVE Repeat(_, _, _, _, _)
Repeat(s, P, chars, lo, hi) ==
    (IF lo <= 0 THEN P ELSE {})
        \cup (IF hi = 0 \/ P = {} THEN {}
              ELSE Repeat(s, OneOf(s, P, chars), chars, lo - 1, hi - 1))

\* \S+
RECURSIVE NonSpaces(_, _)
NonSpaces(s, P) ==
    LET Q == NonSpace(s, P) IN IF Q = {} THEN {} ELSE Q \cup NonSpaces(s, Q)

\* (?:http|ftp)s?://
Scheme(s, P) ==
    LET name == Literal(s, P, "http") \cup Literal(s, P, "ftp")
    IN  Literal(s, name \cup Literal(s, name, "s"), "://")

\* [A-Z0-9](?:[A-Z0-9-]{0,61}[A-Z0-9])?\.
Label(s, P) ==
    LET first == OneOf(s, P, AlnumChars)
        more == OneOf(s, Repeat(s, first, AlnumHyphenChars, 0, 61), AlnumChars)
    IN  Literal(s, first \cup more, ".")

\* (?:label)+
RECURSIVE Labels(_, _)
Labels(s, P) ==
    LET Q == Label(s, P) IN IF Q = {} THEN {} ELSE Q \cup Labels(s, Q)

\* (?:[A-Z]{2,6}\.?|[A-Z0-9-]{2,}\.?)
Suffix(s, P) ==
    LET name == Repeat(s, P, LetterChars, 2, 6)
                    \cup Repeat(s, P, AlnumHyphenChars, 2, Len(s))
    IN  name \cup Literal(s, name, ".")

\* \d{1,3}\.\d{1,3}\.\d{1,3}\.\d{1,3}
DottedQuad(s, P) ==
    LET octet(Q) == Repeat(s, Q, DigitChars, 1, 3)
    IN  octet(Literal(s, octet(Literal(s, octet(Literal(s, octet(P), ".")), ".")), "."))

\* domain | localhost | ip
Host(s, P) ==
    Suffix(s, Labels(s, P)) \cup Literal(s, P, "localhost") \cup DottedQuad(s, P)

\* (?::\d+)?
Port(s, P) == P \cup Repeat(s, Literal(s, P, ":"), DigitChars, 1, Len(s))

\* (?:/?|[/?]\S+)
Path(s, P) == P \cup Literal(s, P, "/") \cup NonSpaces(s, OneOf(s, P, {"/", "?"}))

\* $: the end of the string, or just before a newline that ends it
AtEnd(s, q) == q = Len(s) + 1 \/ (q = Len(s) /\ Chr(s, q) = "\n")

\* regex.match(url) is not None
url_valid(target) ==
    \E q \in Path(target, Port(target, Host(target, Scheme(target, {1})))) :
        AtEnd(target, q)

\* expiration setter: None becomes "", anything else its str()
expiration_setter(u, expiration) ==
    [u EXCEPT !.expiration = IF expiration = None THEN <<>> ELSE expiration]

\* the check of the tiny_text setter (url.py line 66)
tiny_text_valid(tiny_text) ==
    tiny_text = None \/ (isalnum(tiny_text) /\ islower(tiny_text))

\* tiny_text setter: a raw value with exactly one 'T' is split into the
\* expiration and the tiny text; the expiration is assigned before the
\* tiny text is checked.  The result is the record and whether
\* InvalidTinyTextException was raised.
tiny_text_setter(u, raw) ==
    LET split == raw # None /\ Cardinality(Ts(raw)) = 1
        t == CHOOSE i \in Ts(raw) : TRUE
        u1 == IF split THEN expiration_setter(u, SubSeq(raw, 1, t - 1)) ELSE u
        tiny_text == IF split THEN SubSeq(raw, t + 1, Len(raw)) ELSE raw
    IN  IF tiny_text_valid(tiny_text)
        THEN [u |-> [u1 EXCEPT !.tiny_text = tiny_text], raised |-> FALSE]
        ELSE [u |-> u1, raised |-> TRUE]

\* StaticURL.__init__ for a valid target
StaticURL_init(target, tiny_text, expiration) ==
    LET u0 == [url |-> target, expiration |-> <<>>, tiny_text |-> None,
               tiny_text_provided |-> FALSE, last_modified |-> "None"]
        r == tiny_text_setter(expiration_setter(u0, expiration), tiny_text)
    IN  [u |-> [r.u EXCEPT !.tiny_text_provided = (tiny_text # None)],
         raised |-> r.raised]

\* a constructor that assigns the tiny text before the url
StaticURL_raises_mutant(target, tiny_text, expiration) ==
    IF StaticURL_init(target, tiny_text, expiration).raised
    THEN "InvalidTinyTextException"
    ELSE IF ~url_valid(target) THEN "InvalidURLException" ELSE ""

\* StaticURL.__init__: the url setter runs first and raises
\* InvalidURLException for a target that fails _url_valid; the tiny_text
\* setter runs after it.  "" when the record is constructed.
StaticURL_raises(target, tiny_text, expiration) ==
    IF ~url_valid(target) THEN "InvalidURLException"
    ELSE IF StaticURL_init(target, tiny_text, expiration).raised
         THEN "InvalidTinyTextException"
         ELSE ""

\* the expiration prefix of the tiny_text getter and of generate_tiny_text
expiration_prefix(u) ==
    IF u.expiration # <<>> THEN u.expiration \o <<"T">> ELSE <<>>

\* tiny_text getter: expiration + self._tiny_text; with no tiny text
\* assigned this is str + None, a TypeError
tiny_text_getter_raises(u) == u.tiny_text = None

tiny_text_getter(u) == expiration_prefix(u) \o u.tiny_text

\* a generator that leaves the expiration prefix out
generate_tiny_text_mutant(u, length) == [1..length -> Lowercase \cup Digits]

\* generate_tiny_text: the expiration prefix and `length` characters, each
\* any of string.lowercase + string.digits
generate_tiny_text(u, length) ==
    {expiration_prefix(u) \o c : c \in [1..length -> Lowercase \cup Digits]}


\* ------------------------------------------------------------- URL
\* stiny.url.URL, the record of the controllers package.  Its short code
\* is checked against [a-z0-9]+ and an absent identifier is None.
URL_tiny_text_valid(tiny_text) ==
    tiny_text = None
    \/ (Len(tiny_text) > 0 /\ Range(tiny_text) \subseteq (Lowercase \cup Digits))

URL_tiny_text_setter(u, raw) ==
    LET split == raw # None /\ Cardinality(Ts(raw)) = 1
        t == CHOOSE i \in Ts(raw) : TRUE
        u1 == IF split THEN expiration_setter(u, SubSeq(raw, 1, t - 1)) ELSE u
        tiny_text == IF split THEN SubSeq(raw, t + 1, Len(raw)) ELSE raw
    IN  IF URL_tiny_text_valid(tiny_text)
        THEN [u |-> [u1 EXCEPT !.tiny_text = tiny_text], raised |-> FALSE]
        ELSE [u |-> u, raised |-> TRUE]

URL_init(target, tiny_text, expiration) ==
    LET u0 == [url |-> target, expiration |-> <<>>, tiny_text |-> None,
               tiny_text_provided |-> FALSE, last_modified |-> "None"]
        r == URL_tiny_text_setter(expiration_setter(u0, expiration), tiny_text)
    IN  [u |-> [r.u EXCEPT !.tiny_text_provided = (tiny_text # None)],
         raised |-> r.raised]

\* get_tiny_uri: the serialized identifier, None when none is assigned
get_tiny_uri(u) ==
    IF u.tiny_text = None THEN None ELSE expiration_prefix(u) \o u.tiny_text

URL_generate_tiny_text(u, length) ==
    {expiration_prefix(u) \o c : c \in [1..length -> Lowercase \cup Digits]}

\* ------------------------------------------------------------- state
Callers == {1, 2}

Legacy == "S3BucketController"
S3 == "S3Controller"
RCF == "CloudFilesController"
Kinds == {Legacy, S3, RCF}

VARIABLES
    kind,                 \* the controller class in use
    initial_tiny_length,  \* Controller.initial_tiny_length
    max_retries,          \* Controller.max_retries
    overwrite,            \* Controller.overwrite
    bucket,               \* the bucket / container: key -> object
    last_writer,          \* the caller whose write request the backend served last
    pc,                   \* each caller's place in its operation
    op,                   \* each caller's operation
    input,                \* the argument the caller passed
    url,                  \* the record the operation works on
    tiny_uri,             \* the tiny text string delete and validate work on
    retries,              \* local of the allocation loop
    tiny_text_length,     \* local of the legacy allocation loop
    outcome,              \* the value returned or the exception raised
    calls,                \* backend requests issued by the operation
    enumeration,          \* list: the keys the bucket iterator hands out, in order
    cursor,               \* list: how many of them the loop has gone through
    yielded,              \* list: the records yielded so far
    configuration,        \* StinyConfiguration._configuration: (section, option) -> value
    bootstrap,            \* StinyConfiguration._bootstrap
    fp,                   \* the file handed to write: the lines written to it
    method,               \* the StinyConfiguration method called last
    exception             \* what the last StinyConfiguration call raised, "" if nothing

vars == <<kind, initial_tiny_length, max_retries, overwrite, bucket,
          last_writer, pc, op,
          input, url, tiny_uri, retries, tiny_text_length, outcome, calls,
          enumeration, cursor, yielded,
          configuration, bootstrap, fp, method, exception>>

listing == <<enumeration, cursor, yielded>>

config == <<kind, initial_tiny_length, max_retries, overwrite>>

settings == <<configuration, bootstrap, fp, method, exception>>

store == <<bucket, last_writer>>

NoCalls == [exists |-> 0, put |-> 0, delete |-> 0]

NoURL == [url |-> "", expiration |-> <<>>, tiny_text |-> None,
          tiny_text_provided |-> FALSE, last_modified |-> "None"]

NoInput == [form |-> "none", target |-> "", raw |-> None, expiration |-> None]

\* the record class of the controller: StaticURL for the legacy module,
\* URL for the controllers package
record_init(target, raw, expiration) ==
    IF kind = Legacy THEN StaticURL_init(target, raw, expiration)
    ELSE URL_init(target, raw, expiration)

\* the serialized identifier a controller passes to its backend
tiny_key(u) == IF kind = Legacy THEN tiny_text_getter(u) ELSE get_tiny_uri(u)

\* ------------------------------------------------------------- backend
\* bucket.get_key(key) is not None / get_object does not raise NoSuchObject
get_key(key) == key \in DOMAIN bucket

\* the metadata value the controllers read; "" stands for no such metadata
get_metadata(key) == bucket[key].tiny_url

\* a bucket that keeps the object a key already holds
set_contents_mutant(key, u) ==
    [k \in DOMAIN bucket \cup {key} |->
        IF k \in DOMAIN bucket THEN bucket[k]
        ELSE [tiny_url |-> u.url, content |-> u.url]]

\* new_key + set_metadata + set_contents_from_string: create or replace
set_contents(key, u) ==
    [k \in DOMAIN bucket \cup {key} |->
        IF k = key THEN [tiny_url |-> u.url, content |-> u.url] ELSE bucket[k]]

\* bucket.delete_key(key): S3 answers a missing key with success
delete_key(key) == [k \in DOMAIN bucket \ {key} |-> bucket[k]]

\* ------------------------------------------------------------- exists
\* an exists that answers True for whatever is asked
exists_mutant(x) == x # None

\* Controller.exists of a tiny text string: None answers False without a
\* request, anything else is looked up
exists(x) == x # None /\ get_key(x)

exists_calls(x) == IF x # None THEN 1 ELSE 0

Finish(p, result) ==
    /\ pc' = [pc EXCEPT ![p] = "done"]
    /\ outcome' = [outcome EXCEPT ![p] = result]

Goto(p, label) ==
    /\ pc' = [pc EXCEPT ![p] = label]
    /\ outcome' = [outcome EXCEPT ![p] = "none"]

Count(p, what, n) ==
    calls' = [calls EXCEPT ![p][what] = @ + n]

\* the first request of an operation
First(p, what, n) ==
    calls' = [calls EXCEPT ![p] = [NoCalls EXCEPT ![what] = n]]

\* an allocation that begins where an escalated one left off
allocation_start_mutant(p) ==
    [retries |-> 1, tiny_text_length |-> initial_tiny_length + 1]

\* the locals of the allocation loop as a call creates them:
\* "retries = 0", "tiny_text_length = self.initial_tiny_length"
allocation_start(p) ==
    [retries |-> 0, tiny_text_length |-> initial_tiny_length]

\* a call starts when the caller holds no call in progress; the record of
\* a put that returned can be handed on to exists, validate or delete
Begin(p, name, in) ==
    /\ IF in.form = "same"
       THEN pc[p] = "done" /\ op[p] = "put" /\ outcome[p] = "ok"
       ELSE pc[p] = "idle"
    /\ op' = [op EXCEPT ![p] = name]
    /\ input' = [input EXCEPT ![p] = in]
    /\ retries' = [retries EXCEPT ![p] = allocation_start(p).retries]
    /\ tiny_text_length' =
           [tiny_text_length EXCEPT ![p] = allocation_start(p).tiny_text_length]

\* the call has returned or raised: the caller drops the record
Return(p) ==
    /\ pc[p] = "done"
    /\ pc' = [pc EXCEPT ![p] = "idle"]
    /\ op' = [op EXCEPT ![p] = "none"]
    /\ input' = [input EXCEPT ![p] = NoInput]
    /\ url' = [url EXCEPT ![p] = NoURL]
    /\ tiny_uri' = [tiny_uri EXCEPT ![p] = None]
    /\ retries' = [retries EXCEPT ![p] = 0]
    /\ tiny_text_length' = [tiny_text_length EXCEPT ![p] = initial_tiny_length]
    /\ outcome' = [outcome EXCEPT ![p] = "none"]
    /\ calls' = [calls EXCEPT ![p] = NoCalls]
    /\ enumeration' = [enumeration EXCEPT ![p] = <<>>]
    /\ cursor' = [cursor EXCEPT ![p] = 0]
    /\ yielded' = [yielded EXCEPT ![p] = <<>>]
    /\ UNCHANGED <<config, settings, store>>

\* ------------------------------------------------------------- inputs
\* tiny texts a caller supplies: letters, digits only, with an expiration
TinyTexts == {<<"a">>, <<"7">>, <<"5", "T", "a">>}

\* what the bucket holds besides tiny urls: site content without the
\* tiny_url metadata, under a key that is also a tiny text and under the
\* key 'url'
ForeignKeys == {<<"a">>, <<"u", "r", "l">>}

\* ------------------------------------------------------------- put
\* a put that hands every record to the allocator
put_entry_mutant(u) == "select"

\* S3BucketController.put lines 129-133, S3Controller.put line 87,
\* CloudFilesController.put line 79: where the put goes first
put_entry(u) ==
    IF kind = Legacy
    THEN IF ~u.tiny_text_provided THEN "select"
         ELSE IF ~overwrite THEN "check" ELSE "write"
    ELSE IF u.tiny_text = None THEN "select" ELSE "check"

\* the caller constructs the record and calls put
Put(p, target, raw, expiration) ==
    /\ Begin(p, "put", [form |-> "url", target |-> target, raw |-> raw,
                        expiration |-> expiration])
    /\ Cardinality(DOMAIN bucket) < MaxObjects
    /\ calls' = [calls EXCEPT ![p] = NoCalls]
    /\ LET r == record_init(target, raw, expiration)
       IN  IF r.raised
           THEN /\ url' = [url EXCEPT ![p] = NoURL]
                /\ Finish(p, "InvalidTinyTextException")
           ELSE /\ url' = [url EXCEPT ![p] = r.u]
                /\ Goto(p, put_entry(r.u))
    /\ UNCHANGED <<config, settings, listing, store, tiny_uri>>

\* a loop that adopts its candidate whatever exists answered
key_selected_mutant(found) == TRUE

\* "if not self.exists(url.tiny_text): key_selected = True" and its twin
\* "if self.exists(url.get_tiny_uri()): retries += 1; url.tiny_text = None"
key_selected(found) == ~found

\* S3BucketController._select_available_tiny_text: one turn of the loop
\* (generate, assign, exists), or the exit without a key selected
select_available_tiny_text(p) ==
    /\ pc[p] = "select"
    /\ kind = Legacy
    /\ IF retries[p] < max_retries
       THEN \E c \in generate_tiny_text(url[p], tiny_text_length[p]) :
              LET r == tiny_text_setter(url[p], c)
              IN  /\ url' = [url EXCEPT ![p] = r.u]
                  /\ IF r.raised
                     THEN /\ Finish(p, "InvalidTinyTextException")
                          /\ UNCHANGED <<retries, tiny_text_length, calls>>
                     ELSE /\ Count(p, "exists", 1)
                          /\ IF key_selected(exists(tiny_text_getter(r.u)))
                             THEN /\ Goto(p, "write")
                                  /\ UNCHANGED <<retries, tiny_text_length>>
                             ELSE /\ tiny_text_length' =
                                       [tiny_text_length EXCEPT ![p] =
                                           IF retries[p] > 1 THEN @ + 1 ELSE @]
                                  /\ retries' = [retries EXCEPT ![p] = @ + 1]
                                  /\ Goto(p, "select")
       ELSE /\ url' = [url EXCEPT ![p] = tiny_text_setter(url[p], None).u]
            /\ Finish(p, "TooManyNameCollisions")
            /\ UNCHANGED <<retries, tiny_text_length, calls>>
    /\ UNCHANGED <<config, settings, listing, store, op, input, tiny_uri>>

\* Controller._select_tiny_text: one turn of the loop, or its exit
select_tiny_text(p) ==
    /\ pc[p] = "select"
    /\ kind # Legacy
    /\ IF ~url[p].tiny_text_provided
       THEN IF url[p].tiny_text = None /\ retries[p] < max_retries
            THEN \E c \in URL_generate_tiny_text(url[p], initial_tiny_length) :
                   LET r == URL_tiny_text_setter(url[p], c)
                   IN  IF r.raised
                       THEN /\ url' = [url EXCEPT ![p] = r.u]
                            /\ Finish(p, "InvalidTinyTextException")
                            /\ UNCHANGED <<retries, calls>>
                       ELSE /\ Count(p, "exists", exists_calls(get_tiny_uri(r.u)))
                            /\ IF ~key_selected(exists(get_tiny_uri(r.u)))
                               THEN /\ retries' = [retries EXCEPT ![p] = @ + 1]
                                    /\ url' = [url EXCEPT ![p] =
                                                 URL_tiny_text_setter(r.u, None).u]
                                    /\ Goto(p, "select")
                               ELSE /\ url' = [url EXCEPT ![p] = r.u]
                                    /\ Goto(p, "check")
                                    /\ UNCHANGED retries
            ELSE /\ IF url[p].tiny_text = None
                    THEN Finish(p, "UnableToAutogenerateTinyText")
                    ELSE Goto(p, "check")
                 /\ UNCHANGED <<url, retries, calls>>
       ELSE /\ Count(p, "exists", exists_calls(get_tiny_uri(url[p])))
            /\ IF ~overwrite /\ exists(get_tiny_uri(url[p]))
               THEN Finish(p, "TinyURLExistsException")
               ELSE Goto(p, "check")
            /\ UNCHANGED <<url, retries>>
    /\ UNCHANGED <<config, settings, listing, store, op, input, tiny_uri, tiny_text_length>>

\* a put that never looks at what the bucket holds
put_allowed_mutant(found) == TRUE

\* whether the put may write: S3BucketController.put line 132,
\* S3Controller.put line 91, CloudFilesController.put line 82
put_allowed(found) ==
    IF kind = RCF THEN ~found ELSE ~found \/ overwrite

\* the existence check that guards the write
PutCheck(p) ==
    /\ pc[p] = "check"
    /\ Count(p, "exists", exists_calls(tiny_key(url[p])))
    /\ IF put_allowed(exists(tiny_key(url[p])))
       THEN Goto(p, "write")
       ELSE Finish(p, "TinyURLExistsException")
    /\ UNCHANGED <<config, settings, listing, store, op, input, url, tiny_uri, retries, tiny_text_length>>

\* a put that stamps the record before its write has gone through
last_modified_after_mutant(u, written) ==
    IF kind # Legacy THEN [u EXCEPT !.last_modified = "now"] ELSE u

\* "url.last_modified = datetime.now()" is the statement after the write
\* and sio.close(): it is reached only when the write did not raise.
\* S3BucketController.put has no such statement.
last_modified_after(u, written) ==
    IF written /\ kind # Legacy THEN [u EXCEPT !.last_modified = "now"] ELSE u

\* the write: new_key / set_metadata / set_contents_from_string (file), or
\* create_object.  CloudFilesController passes itself as a stray first
\* argument to create_object, so the request may also end in a TypeError
\* before anything is stored.
PutWrite(p) ==
    /\ pc[p] = "write"
    /\ \/ /\ bucket' = set_contents(tiny_key(url[p]), url[p])
          /\ last_writer' = p
          /\ Count(p, "put", 1)
          /\ url' = [url EXCEPT ![p] = last_modified_after(@, TRUE)]
          /\ Finish(p, "ok")
       \/ /\ kind = RCF
          /\ url' = [url EXCEPT ![p] = last_modified_after(@, FALSE)]
          /\ Finish(p, "TypeError")
          /\ UNCHANGED <<store, calls>>
    /\ UNCHANGED <<config, settings, listing, op, input, tiny_uri, retries, tiny_text_length>>


\* ------------------------------------------------------------- arguments
\* the record a caller passes: one it constructs for the call, or the one
\* its previous operation worked on
\* a call that takes the tiny text off the record it was handed
arg_record_mutant(p, in) ==
    IF in.form = "same"
    THEN [u |-> [url[p] EXCEPT !.tiny_text = None], raised |-> FALSE]
    ELSE record_init(in.target, in.raw, in.expiration)

arg_record(p, in) ==
    IF in.form = "same" THEN [u |-> url[p], raised |-> FALSE]
    ELSE record_init(in.target, in.raw, in.expiration)

\* a normalisation that hands on a record's short code without its
\* expiration prefix
Resolve_mutant(p, in) ==
    IF in.form = "str" THEN [u |-> url[p], x |-> in.raw, raised |-> ""]
    ELSE LET r == arg_record(p, in)
         IN  IF r.raised
             THEN [u |-> NoURL, x |-> None, raised |-> "InvalidTinyTextException"]
             ELSE [u |-> r.u, x |-> r.u.tiny_text, raised |-> ""]

\* "if isinstance(url, StaticURL): url = url.tiny_text" and its URL twin
\* "url = url.get_tiny_uri()": the record u, the tiny text string x, and
\* the exception raised on the way, if any
Resolve(p, in) ==
    IF in.form = "str" THEN [u |-> url[p], x |-> in.raw, raised |-> ""]
    ELSE LET r == arg_record(p, in)
         IN  IF r.raised
             THEN [u |-> NoURL, x |-> None, raised |-> "InvalidTinyTextException"]
             ELSE IF kind = Legacy /\ tiny_text_getter_raises(r.u)
             THEN [u |-> r.u, x |-> None, raised |-> "TypeError"]
             ELSE [u |-> r.u, x |-> tiny_key(r.u), raised |-> ""]

Bool(b) == IF b THEN "True" ELSE "False"

\* ------------------------------------------------------------- exists
Exists(p, in) ==
    /\ Begin(p, "exists", in)
    /\ LET a == Resolve(p, in)
       IN  /\ url' = [url EXCEPT ![p] = a.u]
           /\ IF a.raised # ""
              THEN /\ Finish(p, a.raised)
                   /\ calls' = [calls EXCEPT ![p] = NoCalls]
              ELSE /\ Finish(p, Bool(exists(a.x)))
                   /\ First(p, "exists", exists_calls(a.x))
    /\ UNCHANGED <<config, settings, listing, store, tiny_uri>>

\* ------------------------------------------------------------- delete
\* delete up to its existence check
Delete(p, in) ==
    /\ Begin(p, "delete", in)
    /\ LET a == Resolve(p, in)
       IN  /\ url' = [url EXCEPT ![p] = a.u]
           /\ IF a.raised # ""
              THEN /\ Finish(p, a.raised)
                   /\ calls' = [calls EXCEPT ![p] = NoCalls]
                   /\ UNCHANGED tiny_uri
              ELSE /\ First(p, "exists", exists_calls(a.x))
                   /\ tiny_uri' = [tiny_uri EXCEPT ![p] = a.x]
                   /\ IF exists(a.x)
                      THEN Goto(p, "delete_key")
                      ELSE Finish(p, "TinyUrlDoesNotExistException")
    /\ UNCHANGED <<config, settings, listing, store>>

\* the name CloudFilesController.delete hands to delete_object
url_literal == <<"u", "r", "l">>

\* the delete request: delete_key(url) on S3, delete_object(container, 'url')
\* on CloudFiles, which raises NoSuchObject for a missing name
DeleteKey(p) ==
    /\ pc[p] = "delete_key"
    /\ Count(p, "delete", 1)
    /\ IF kind # RCF
       THEN /\ bucket' = delete_key(tiny_uri[p])
            /\ Finish(p, "ok")
       ELSE IF get_key(url_literal)
       THEN /\ bucket' = delete_key(url_literal)
            /\ Finish(p, "ok")
       ELSE /\ Finish(p, "NoSuchObject")
            /\ UNCHANGED bucket
    /\ UNCHANGED <<config, settings, listing, last_writer, op, input, url, tiny_uri, retries,
                   tiny_text_length>>

\* ------------------------------------------------------------- validate
\* a validate that does not compare the metadata
metadata_matches_mutant(x, u) == TRUE

\* the comparison of the stored tiny_url metadata with the record's url
metadata_matches(x, u) == get_metadata(x) = u.url

\* validate up to its first request: exists(url) on S3, the one get_object
\* on CloudFiles
Validate(p, in) ==
    /\ Begin(p, "validate", in)
    /\ LET a == Resolve(p, in)
       IN  /\ url' = [url EXCEPT ![p] = a.u]
           /\ IF a.raised # ""
              THEN /\ Finish(p, a.raised)
                   /\ calls' = [calls EXCEPT ![p] = NoCalls]
                   /\ UNCHANGED tiny_uri
              ELSE /\ tiny_uri' = [tiny_uri EXCEPT ![p] = a.x]
                   /\ IF kind = RCF
                      THEN /\ First(p, "exists", 1)
                           /\ Finish(p, Bool(get_key(a.x) /\ metadata_matches(a.x, a.u)))
                      ELSE /\ First(p, "exists", exists_calls(a.x))
                           /\ IF exists(a.x)
                              THEN Goto(p, "validate_get")
                              ELSE Finish(p, "False")
    /\ UNCHANGED <<config, settings, listing, store>>

\* get_key(url.tiny_text).get_metadata("tiny_url") == url.url; get_key
\* answers None for a key that is gone
ValidateGet(p) ==
    /\ pc[p] = "validate_get"
    /\ Count(p, "exists", 1)
    /\ IF get_key(tiny_uri[p])
       THEN Finish(p, Bool(metadata_matches(tiny_uri[p], url[p])))
       ELSE Finish(p, "AttributeError")
    /\ UNCHANGED <<config, settings, listing, store, op, input, url, tiny_uri, retries,
                   tiny_text_length>>

\* ------------------------------------------------------------- list
\* the orders in which the bucket iterator can hand out a set of keys
Orders(keys) == {o \in [1..Cardinality(keys) -> keys] : Range(o) = keys}

\* an object on which every tiny_url lookup succeeds
has_tiny_url_mutant(key) == TRUE

\* akey.metadata["tiny_url"] finds the entry; KeyError otherwise
has_tiny_url(key) == get_metadata(key) # ""

\* a list that reports one target for every object
listed_record_mutant(key) == record_init("http://example.com", key, None)

\* "yield StaticURL(href, key.key)" and its URL twins: the record list
\* builds from an object's tiny_url metadata and its key
listed_record(key) == record_init(get_metadata(key), key, None)

\* list(): the generator is started and the bucket hands out its keys
List(p) ==
    /\ Begin(p, "list", NoInput)
    /\ Goto(p, "list_next")
    /\ \E o \in Orders(DOMAIN bucket) :
           enumeration' = [enumeration EXCEPT ![p] = o]
    /\ cursor' = [cursor EXCEPT ![p] = 0]
    /\ yielded' = [yielded EXCEPT ![p] = <<>>]
    /\ calls' = [calls EXCEPT ![p] = NoCalls]
    /\ UNCHANGED <<config, settings, store, url, tiny_uri>>

\* one turn of the for loop: get_key(key.key), the metadata lookup (a
\* KeyError goes on to the next key), the record's construction and the
\* yield; the generator ends when the keys are used up.  A key that is
\* gone answers None to get_key, and None has no metadata.
ListNext(p) ==
    /\ pc[p] = "list_next"
    /\ IF cursor[p] = Len(enumeration[p])
       THEN Finish(p, "ok") /\ UNCHANGED <<cursor, yielded>>
       ELSE LET k == enumeration[p][cursor[p] + 1]
                r == listed_record(k)
                u == [r.u EXCEPT !.last_modified =
                                    IF kind = Legacy THEN @ ELSE "stored"]
            IN  IF ~get_key(k)
                THEN /\ Finish(p, IF kind = RCF THEN "NoSuchObject" ELSE "AttributeError")
                     /\ UNCHANGED <<cursor, yielded>>
                ELSE IF ~has_tiny_url(k)
                THEN /\ cursor' = [cursor EXCEPT ![p] = @ + 1]
                     /\ UNCHANGED <<pc, outcome, yielded>>
                ELSE IF r.raised
                THEN /\ Finish(p, "InvalidTinyTextException")
                     /\ UNCHANGED <<cursor, yielded>>
                ELSE /\ cursor' = [cursor EXCEPT ![p] = @ + 1]
                     /\ yielded' = [yielded EXCEPT ![p] = Append(@, u)]
                     /\ UNCHANGED <<pc, outcome>>
    /\ UNCHANGED <<config, settings, store, op, input, url, tiny_uri, retries,
                   tiny_text_length, calls, enumeration>>

\* ------------------------------------------------------------- get
\* S3Controller.get / CloudFilesController.get of a tiny uri string: one
\* request, the metadata lookup and the record's construction in a try
\* whose handler for a missing object or missing metadata executes
\* `return TinyUrlDoesNotExistException(...)`
Get(p, in) ==
    /\ kind # Legacy
    /\ Begin(p, "get", in)
    /\ First(p, "exists", 1)
    /\ tiny_uri' = [tiny_uri EXCEPT ![p] = in.raw]
    /\ LET r == record_init(get_metadata(in.raw), in.raw, None)
       IN  IF ~get_key(in.raw) \/ ~has_tiny_url(in.raw)
           THEN /\ Finish(p, "return TinyUrlDoesNotExistException")
                /\ UNCHANGED url
           ELSE IF r.raised
           THEN Finish(p, "InvalidTinyTextException") /\ UNCHANGED url
           ELSE /\ Finish(p, "ok")
                /\ url' = [url EXCEPT ![p] = [r.u EXCEPT !.last_modified = "stored"]]
    /\ UNCHANGED <<config, settings, listing, store>>

\* ------------------------------------------------------------- backend failures
\* a request the storage client could not complete (network, credentials,
\* permissions): boto and pyrax raise their own exception for it
BackendError == "BackendError"

\* an exists that answers False whatever its request raised
exists_on_error_mutant(exc) == "False"

\* what exists does when its request raises exc: CloudFilesController
\* turns NoSuchObject into False (rcf.py lines 159-163), nothing else is
\* caught by any controller
exists_on_error(exc) ==
    IF kind = RCF /\ exc = "NoSuchObject" THEN "False" ELSE exc

\* the kind of request caller p's operation sends next, "none" when its
\* next step sends none
next_request(p) ==
    IF pc[p] = "select" /\ retries[p] < max_retries
       /\ (kind = Legacy \/ url[p].tiny_text = None) THEN "exists"
    ELSE IF pc[p] \in {"check", "validate_get"} THEN "exists"
    ELSE IF pc[p] = "list_next" /\ cursor[p] < Len(enumeration[p]) THEN "exists"
    ELSE IF pc[p] = "write" THEN "put"
    ELSE IF pc[p] = "delete_key" THEN "delete"
    ELSE "none"

\* the request of the step caller p is at raises a backend error.  In the
\* allocation loops the candidate is already assigned when exists is
\* called.
FailedRequest(p) ==
    /\ next_request(p) # "none"
    /\ Count(p, next_request(p), 1)
    /\ IF pc[p] = "select"
       THEN \E c \in generate_tiny_text(url[p], tiny_text_length[p]) :
              LET r == IF kind = Legacy THEN tiny_text_setter(url[p], c)
                       ELSE URL_tiny_text_setter(url[p], c)
              IN  ~r.raised /\ url' = [url EXCEPT ![p] = r.u]
       ELSE IF pc[p] = "write"
       THEN url' = [url EXCEPT ![p] = last_modified_after(@, FALSE)]
       ELSE UNCHANGED url
    /\ LET r == IF pc[p] \in {"select", "check"}
                THEN exists_on_error(BackendError) ELSE BackendError
       IN  IF r = "False"
           THEN Goto(p, IF pc[p] = "select" /\ kind # Legacy THEN "check" ELSE "write")
           ELSE Finish(p, r)
    /\ UNCHANGED <<config, settings, listing, store, op, input, tiny_uri, retries,
                   tiny_text_length>>

\* exists, delete or validate of a tiny text whose first request raises a
\* backend error
FailedCall(p, name, in) ==
    /\ Begin(p, name, in)
    /\ name = "validate" => in.form = "url"
    /\ LET a == Resolve(p, in)
           r == exists_on_error(BackendError)
       IN  /\ a.raised = "" /\ a.x # None
           /\ url' = [url EXCEPT ![p] = a.u]
           /\ tiny_uri' = [tiny_uri EXCEPT ![p] = a.x]
           /\ First(p, "exists", 1)
           /\ IF r # "False" THEN Finish(p, r)
              ELSE IF name = "delete" THEN Finish(p, "TinyUrlDoesNotExistException")
              ELSE Finish(p, "False")
    /\ UNCHANGED <<config, settings, listing, store>>

\* ------------------------------------------------------------- site content
\* an object stored without the tiny_url metadata (the "non-tinys" list
\* passes over), uploaded between the callers' operations
ForeignPut(k) ==
    /\ \A p \in Callers : pc[p] = "idle"
    /\ k \notin DOMAIN bucket
    /\ Cardinality(DOMAIN bucket) < MaxObjects
    /\ bucket' = [j \in DOMAIN bucket \cup {k} |->
                    IF j = k THEN [tiny_url |-> "", content |-> "static"]
                    ELSE bucket[j]]
    /\ UNCHANGED <<config, settings, listing, last_writer, pc, op, input, url, tiny_uri, retries,
                   tiny_text_length, outcome, calls>>

\* ------------------------------------------------------------- inputs
PutInputs == Targets \X ({None} \cup TinyTexts) \X {None}

StrInputs ==
    {[form |-> "str", target |-> "", raw |-> r, expiration |-> None] :
        r \in {None, <<>>} \cup TinyTexts}

UrlInputs ==
    {[form |-> "url", target |-> t, raw |-> r, expiration |-> None] :
        t \in Targets, r \in {None} \cup TinyTexts}

\* exists and delete read only the record's tiny text
KeyInputs == StrInputs \cup {i \in UrlInputs : i.target = "http://example.com"}

\* get takes the name of a tiny url
GetInputs == {i \in StrInputs : i.raw # None}

\* calls whose first request is made to fail
FailureInputs == {i \in KeyInputs : i.raw = <<"a">>}

SameInput == [form |-> "same", target |-> "", raw |-> None, expiration |-> None]

SameInputs == {SameInput}

\* ------------------------------------------------------------- system
\* StinyConfiguration(): no options held, bootstrap mode, nothing written
InitConfiguration ==
    /\ configuration = [k \in {} |-> ""]
    /\ bootstrap = TRUE
    /\ fp = {}
    /\ method = "__init__"
    /\ exception = ""

InitController ==
    /\ kind \in Kinds
    /\ initial_tiny_length \in 1..MaxInitialLength
    /\ max_retries \in 0..MaxRetries
    /\ overwrite \in BOOLEAN
    /\ bucket = [k \in {} |-> [tiny_url |-> "", content |-> ""]]
    /\ last_writer = 0
    /\ pc = [p \in Callers |-> "idle"]
    /\ op = [p \in Callers |-> "none"]
    /\ input = [p \in Callers |-> NoInput]
    /\ url = [p \in Callers |-> NoURL]
    /\ tiny_uri = [p \in Callers |-> None]
    /\ retries = [p \in Callers |-> 0]
    /\ tiny_text_length = [p \in Callers |-> initial_tiny_length]
    /\ outcome = [p \in Callers |-> "none"]
    /\ calls = [p \in Callers |-> NoCalls]
    /\ enumeration = [p \in Callers |-> <<>>]
    /\ cursor = [p \in Callers |-> 0]
    /\ yielded = [p \in Callers |-> <<>>]

Init == InitController /\ InitConfiguration

Step(p) ==
    \/ \E i \in PutInputs : Put(p, i[1], i[2], i[3])
    \/ select_available_tiny_text(p)
    \/ select_tiny_text(p)
    \/ PutCheck(p)
    \/ PutWrite(p)
    \/ \E i \in KeyInputs \cup SameInputs : Exists(p, i)
    \/ \E i \in KeyInputs \cup SameInputs : Delete(p, i)
    \/ DeleteKey(p)
    \/ \E i \in UrlInputs \cup SameInputs : Validate(p, i)
    \/ ValidateGet(p)
    \/ \E i \in GetInputs : Get(p, i)
    \/ List(p)
    \/ ListNext(p)
    \/ FailedRequest(p)
    \/ \E name \in {"exists", "delete", "validate"} :
          \E i \in FailureInputs : FailedCall(p, name, i)
    \/ Return(p)

\* one caller at a time
Next ==
    \/ Step(1)
    \/ \E k \in ForeignKeys : ForeignPut(k)

Spec == Init /\ [][Next]_vars


\* ------------------------------------------------------------- records alone
\* StaticURL(target, tiny_text=raw): the constructor hands the target to
\* the url setter and raw to the tiny_text setter; either raises, and then
\* there is no record, or the record is constructed
Construct(p, target, raw) ==
    /\ Begin(p, "construct",
             [form |-> "url", target |-> target, raw |-> raw,
              expiration |-> None])
    /\ LET raised == StaticURL_raises(target, raw, None)
       IN  /\ url' = [url EXCEPT ![p] =
                        IF raised # "" THEN NoURL
                        ELSE StaticURL_init(target, raw, None).u]
           /\ Finish(p, IF raised # "" THEN raised ELSE "ok")
    /\ UNCHANGED <<config, settings, listing, store, tiny_uri, calls>>

RawTinyTexts == {None} \cup Strings(Chars, MaxLen)

\* targets to construct with: each put together from a scheme, what
\* follows it, a host, a port, a path and an ending, and one that has no
\* such parts
TargetSchemes == {"http", "https", "ftp", "ftps", "HTTP", "file"}
TargetSeparators == {"://", ":/"}
TargetHosts == {"example.com", "localhost", "192.168.0.1", "bad", "-bad.com"}
TargetPorts == {"", ":8080", ":80a"}
TargetPaths == {"", "/", "/path", "?q=1", "#frag"}
TargetEndings == {"", "\n"}

TargetParts ==
    [scheme : TargetSchemes, separator : TargetSeparators, host : TargetHosts,
     port : TargetPorts, path : TargetPaths, ending : TargetEndings]

Join(x) == x.scheme \o x.separator \o x.host \o x.port \o x.path \o x.ending

JoinedTargets == {Join(x) : x \in TargetParts}

TargetInputs == JoinedTargets \cup {"not-a-url"}

\* tiny texts to construct with when the target varies: none and an
\* invalid one
TargetRawInputs == {None, <<"B">>}

\* url.generate_tiny_text(length) on a constructed record: the caller keeps
\* the string returned
Generate(p, length) ==
    /\ pc[p] = "done" /\ op[p] = "construct" /\ outcome[p] = "ok"
    /\ op' = [op EXCEPT ![p] = "generate"]
    /\ tiny_text_length' = [tiny_text_length EXCEPT ![p] = length]
    /\ \E c \in generate_tiny_text(url[p], length) :
           tiny_uri' = [tiny_uri EXCEPT ![p] = c]
    /\ UNCHANGED <<config, settings, listing, store, pc, input, url, retries, outcome, calls>>

\* url.tiny_text = raw on a record the caller holds: the setter assigns
\* or raises, and the caller keeps the record either way
Assign(p, raw) ==
    /\ pc[p] = "done" /\ op[p] \in {"construct", "assign"} /\ url[p] # NoURL
    /\ op' = [op EXCEPT ![p] = "assign"]
    /\ input' = [input EXCEPT ![p].raw = raw]
    /\ LET r == tiny_text_setter(url[p], raw)
       IN  /\ url' = [url EXCEPT ![p] = r.u]
           /\ outcome' = [outcome EXCEPT ![p] =
                            IF r.raised THEN "InvalidTinyTextException" ELSE "ok"]
    /\ UNCHANGED <<config, settings, listing, store, pc, tiny_uri, retries,
                   tiny_text_length, calls>>

\* tiny texts assigned to a record: none, valid and invalid ones, with and
\* without an expiration part
AssignInputs ==
    {None, <<"a">>, <<"B">>, <<"7", "T", "a">>, <<"7", "T", "B">>, <<"7", "T">>,
     <<"a", "T", "a">>}

InitURL ==
    /\ Init
    /\ kind = Legacy
    /\ initial_tiny_length = 1
    /\ max_retries = 0
    /\ ~overwrite

NextURL ==
    \/ \E raw \in RawTinyTexts : Construct(1, "http://example.com", raw)
    \/ \E target \in TargetInputs : \E raw \in TargetRawInputs : Construct(1, target, raw)
    \/ \E length \in 1..MaxLen : Generate(1, length)
    \/ \E raw \in AssignInputs : Assign(1, raw)
    \/ Return(1)

SpecURL == InitURL /\ [][NextURL]_vars


\* ------------------------------------------------------------- two callers
\* two clients of one bucket, each making one allocating put of its own
\* target; nothing orders the requests of one against those of the other
CallerTarget(p) == IF p = 1 THEN "http://example.com" ELSE "http://www.google.com/"

NextConc ==
    \E p \in Callers :
        \/ Put(p, CallerTarget(p), None, None)
        \/ select_available_tiny_text(p)
        \/ select_tiny_text(p)
        \/ PutCheck(p)
        \/ PutWrite(p)

SpecConc == Init /\ [][NextConc]_vars

\* two clients of one bucket that work on one tiny text: each puts its own
\* target under it, validates its record, deletes it by name
\* and lists the bucket, call after call; the backend serves their requests
\* in any order
RaceRecord(p) ==
    [form |-> "url", target |-> CallerTarget(p), raw |-> <<"a">>, expiration |-> None]

RaceName == [form |-> "str", target |-> "", raw |-> <<"a">>, expiration |-> None]

InitRace ==
    /\ Init
    /\ initial_tiny_length = 1
    /\ max_retries = 0

NextRace ==
    \E p \in Callers :
        \/ Put(p, CallerTarget(p), <<"a">>, None)
        \/ PutCheck(p)
        \/ PutWrite(p)
        \/ Validate(p, RaceRecord(p))
        \/ ValidateGet(p)
        \/ Delete(p, RaceName)
        \/ DeleteKey(p)
        \/ List(p)
        \/ ListNext(p)
        \/ Return(p)

SpecRace == InitRace /\ [][NextRace]_vars


\* ------------------------------------------------------------- configuration
\* StinyConfiguration.  A value is the string the option holds; None and
\* an int are written as str() makes them, which is what Coerce(str),
\* Coerce(int), In and the file writer see of them.
NoValue == "None"

SUPPORTED_STORAGE == {"s3", "rcf"}

\* region names boto lists for S3
S3_REGIONS == {"us-west-2", "us-east-1"}

RCF_REGIONS == {"SYD", "IAD", "DFW", "ORD", "HKG"}

\* _CONFIG_SCHEMA: the sections, Required("main") alone being required
SchemaSections == {"main", "s3", "rcf"}

RequiredSections == {"main"}

\* the Required options of a section
RequiredOptions(section) ==
    IF section = "main"
    THEN {"root_domain_name", "template", "storage", "min_length", "max_retries"}
    ELSE IF section = "s3"
    THEN {"region", "bucket_name", "aws_access_key_id", "aws_secret_access_key"}
    ELSE {"region", "container_name", "username", "api_key"}

\* the Optional options of a section
OptionalOptions(section) ==
    IF section = "main" THEN {"analytics_id"} ELSE {"compress"}

\* Required(..., default=...): the value a missing option is given
Defaults == (<<"main", "min_length">> :> "3") @@ (<<"main", "max_retries">> :> "5")

\* _ALLOWED_SCHEMA_OPTIONS of set
AllowedKeys ==
    UNION {{<<section, option>> :
                option \in RequiredOptions(section) \cup OptionalOptions(section)} :
           section \in SchemaSections}

\* value.startswith(prefix)
startswith(value, prefix) ==
    Len(value) >= Len(prefix) /\ SubSeq(value, 1, Len(prefix)) = prefix

\* valid_template_value
valid_template_value(value) ==
    startswith(value, "CANNED:") \/ startswith(value, "FILE:")

\* Coerce(int): int(value) succeeds
coerce_int(value) ==
    LET digits == IF Len(value) > 0 /\ Chr(value, 1) \in {"-", "+"}
                  THEN SubSeq(value, 2, Len(value)) ELSE value
    IN  Len(digits) > 0 /\ Chars_of(digits) \subseteq DigitChars

\* the validator of an option of the schema
option_valid(section, option, value) ==
    IF option = "template" THEN valid_template_value(value)
    ELSE IF option = "storage" THEN value \in SUPPORTED_STORAGE
    ELSE IF option \in {"min_length", "max_retries", "compress"} THEN coerce_int(value)
    ELSE IF option = "region"
    THEN value \in (IF section = "s3" THEN S3_REGIONS ELSE RCF_REGIONS)
    ELSE TRUE

Sections(c) == {k[1] : k \in DOMAIN c}

Options(c, section) == {k[2] : k \in {j \in DOMAIN c : j[1] = section}}

\* _CONFIG_SCHEMA(configuration) does not raise: every required section
\* and every required option without a default is there, nothing is there
\* that the schema does not name, and every value passes its validator
schema_valid(c) ==
    /\ RequiredSections \subseteq Sections(c)
    /\ DOMAIN c \subseteq AllowedKeys
    /\ \A section \in Sections(c) :
           \A option \in RequiredOptions(section) :
               <<section, option>> \in DOMAIN c \cup DOMAIN Defaults
    /\ \A k \in DOMAIN c : option_valid(k[1], k[2], c[k])

\* sum([storage in configuration for storage in SUPPORTED_STORAGE])
storage_count(c) == Cardinality(SUPPORTED_STORAGE \cap Sections(c))

\* a check that stops at the schema
get_valid_raises_mutant(c) == ~schema_valid(c)

\* _get_valid raises MultipleInvalid
get_valid_raises(c) == ~schema_valid(c) \/ storage_count(c) > 1

\* what _get_valid returns: the configuration with the defaults filled in
get_valid(c) ==
    [k \in DOMAIN c \cup DOMAIN Defaults |-> IF k \in DOMAIN c THEN c[k] ELSE Defaults[k]]

\* set in bootstrap mode: the section and the option are created, the
\* option holding None, before the schema is consulted
bootstrap_created(c, section, option) ==
    IF bootstrap /\ <<section, option>> \notin DOMAIN c
    THEN [k \in DOMAIN c \cup {<<section, option>>} |->
            IF k \in DOMAIN c THEN c[k] ELSE NoValue]
    ELSE c

\* StinyConfiguration.set(section, option, value)
Set(section, option, value) ==
    /\ fp = {}
    /\ method' = "set"
    /\ LET c == bootstrap_created(configuration, section, option)
       IN  IF <<section, option>> \in AllowedKeys
           THEN IF section \in Sections(c)
                THEN /\ configuration' =
                           [k \in DOMAIN c \cup {<<section, option>>} |->
                               IF k = <<section, option>> THEN value ELSE c[k]]
                     /\ exception' = ""
                ELSE /\ configuration' = c
                     /\ exception' = "KeyError"
           ELSE /\ configuration' = c
                /\ exception' = "MultipleInvalid"
    /\ UNCHANGED <<config, store, listing, pc, op, input, url, tiny_uri, retries,
                   tiny_text_length, outcome, calls, bootstrap, fp>>

\* _dict_to_configparser and ConfigParser.write: one line per option
file_lines(c) == {<<k[1], k[2], c[k]>> : k \in DOMAIN c}

\* StinyConfiguration.write(fp)
Write ==
    /\ fp = {}
    /\ method' = "write"
    /\ IF get_valid_raises(configuration)
       THEN exception' = "MultipleInvalid" /\ UNCHANGED fp
       ELSE exception' = "" /\ fp' = file_lines(configuration)
    /\ UNCHANGED <<config, store, listing, pc, op, input, url, tiny_uri, retries,
                   tiny_text_length, outcome, calls, configuration, bootstrap>>

\* the set calls made
SetInputs ==
    {<<"main", "root_domain_name", "example.com">>,
     <<"main", "template", "CANNED:default">>,
     <<"main", "template", "x">>,
     <<"main", "storage", "s3">>,
     <<"main", "storage", NoValue>>,
     <<"main", "bogus", "v">>,
     <<"bogus", "region", "v">>,
     <<"s3", "region", "us-west-2">>,
     <<"s3", "bucket_name", NoValue>>,
     <<"s3", "aws_access_key_id", "k">>,
     <<"s3", "aws_secret_access_key", "s">>,
     <<"rcf", "region", "DFW">>,
     <<"rcf", "container_name", "c">>,
     <<"rcf", "username", "u">>,
     <<"rcf", "api_key", "k">>}

\* the dicts StinyConfiguration is constructed from
DictInputs ==
    {(<<"main", "root_domain_name">> :> "example.com")
        @@ (<<"main", "template">> :> "CANNED:default")
        @@ (<<"main", "storage">> :> "s3"),
     (<<"main", "root_domain_name">> :> "example.com")
        @@ (<<"main", "template">> :> "FILE:tiny.html")
        @@ (<<"main", "storage">> :> "rcf")
        @@ (<<"main", "min_length">> :> "4")
        @@ (<<"rcf", "region">> :> "DFW")
        @@ (<<"rcf", "container_name">> :> "c")
        @@ (<<"rcf", "username">> :> "u")
        @@ (<<"rcf", "api_key">> :> "k")}

\* StinyConfiguration(None), or StinyConfiguration(dict) for a dict that
\* _get_valid lets through
InitSettings ==
    /\ InitController
    /\ kind = Legacy /\ initial_tiny_length = 1 /\ max_retries = 0 /\ ~overwrite
    /\ fp = {}
    /\ method = "__init__"
    /\ exception = ""
    /\ \/ bootstrap = TRUE /\ configuration = [k \in {} |-> ""]
       \/ /\ bootstrap = FALSE
          /\ \E d \in DictInputs :
                ~get_valid_raises(d) /\ configuration = get_valid(d)

NextSettings ==
    \/ \E i \in SetInputs : Set(i[1], i[2], i[3])
    \/ Write

SpecSettings == InitSettings /\ [][NextSettings]_vars


\* ------------------------------------------------------------- properties
Max(a, b) == IF a > b THEN a ELSE b

\* caller p runs, or has run, a put that allocates the tiny text
AutoPut(p) == op[p] = "put" /\ input[p].raw = None

\* the allocation of caller p's put has adopted a candidate
Adopted(p) ==
    AutoPut(p) /\ (pc[p] \in {"check", "write"} \/ (pc[p] = "done" /\ outcome[p] = "ok"))

\* C1: once an allocating put has met k collisions and then a free
\* candidate, the adopted short code has length
\* initial_tiny_length + max(0, k - 1).
C1_LengthAfterCollisions ==
    \A p \in Callers :
        Adopted(p) =>
            Len(url[p].tiny_text) = initial_tiny_length + Max(0, retries[p] - 1)

\* every existence check of caller p's allocation answered true, and there
\* was one unless max_retries allows none
AlwaysCollided(p) ==
    /\ AutoPut(p)
    /\ calls[p].exists = retries[p]
    /\ retries[p] >= 1 \/ max_retries = 0

\* C2: an allocating put all of whose existence checks answered true ends
\* with the exhaustion error after exactly max_retries checks, with no
\* identifier on the record and no write issued.
C2_ExhaustionAfterMaxRetries ==
    \A p \in Callers :
        (AlwaysCollided(p) /\ pc[p] = "done") =>
            /\ outcome[p] \in {"TooManyNameCollisions", "UnableToAutogenerateTinyText"}
            /\ calls[p].exists = max_retries
            /\ url[p].tiny_text = None
            /\ calls[p].put = 0

\* caller p's put is at its existence check with a tiny text the caller
\* supplied and the bucket holds
SuppliedAndStored(p) ==
    /\ op[p] = "put"
    /\ pc[p] = "check"
    /\ url[p].tiny_text_provided
    /\ get_key(tiny_key(url[p]))

\* C3: with overwrite off, a put whose caller-supplied tiny text is stored
\* ends in TinyURLExistsException, issues no write and leaves the bucket
\* as it was (the existence check being answered by the backend).
C3_NoOverwrite ==
    [][\A p \in Callers :
        (SuppliedAndStored(p) /\ ~overwrite /\ pc'[p] # pc[p]
           /\ outcome'[p] # BackendError) =>
            /\ pc'[p] = "done"
            /\ outcome'[p] = "TinyURLExistsException"
            /\ calls'[p].put = 0
            /\ bucket' = bucket]_vars

C3_Witness ==
    \E p \in Callers :
        /\ op[p] = "put"
        /\ pc[p] = "done"
        /\ url[p].tiny_text_provided
        /\ ~overwrite
        /\ outcome[p] = "TinyURLExistsException"
        /\ get_key(tiny_key(url[p]))
        /\ get_metadata(tiny_key(url[p])) # url[p].url

\* C4: with overwrite on, a put with a caller-supplied tiny text never ends
\* in TinyURLExistsException, and when it returns the bucket holds the
\* record's url under that tiny text.
C4_OverwriteProceeds ==
    \A p \in Callers :
        (op[p] = "put" /\ pc[p] = "done" /\ url[p].tiny_text_provided /\ overwrite) =>
            /\ outcome[p] # "TinyURLExistsException"
            /\ outcome[p] = "ok" =>
                  /\ get_key(tiny_key(url[p]))
                  /\ get_metadata(tiny_key(url[p])) = url[p].url

\* C5: a put that returned is followed by exists(record) = True and
\* validate(record) = True, and an allocating put into an empty bucket
\* with max_retries >= 1 returns with its first candidate, of
\* initial_tiny_length characters (no request failing at the backend).
C5_PutThenExistsAndValidate ==
    \A p \in Callers :
        /\ (pc[p] = "done" /\ op[p] \in {"exists", "validate"} /\ input[p].form = "same"
              /\ outcome[p] # BackendError)
               => outcome[p] = "True"
        /\ (AutoPut(p) /\ pc[p] = "done" /\ max_retries >= 1
              /\ outcome[p] # BackendError
              /\ (DOMAIN bucket = {}
                    \/ (outcome[p] = "ok" /\ DOMAIN bucket = {tiny_key(url[p])})))
               => /\ outcome[p] = "ok"
                  /\ retries[p] = 0
                  /\ Len(url[p].tiny_text) = initial_tiny_length

\* the step is caller p calling delete with a tiny text, or a record that
\* has one, which the bucket does not hold, and the backend answers
DeleteOfMissing(p) ==
    /\ pc[p] # pc'[p]
    /\ op'[p] = "delete"
    /\ pc[p] # "delete_key"
    /\ outcome'[p] # BackendError
    /\ LET a == Resolve(p, input'[p])
       IN  a.raised = "" /\ ~get_key(a.x)

\* C6: delete of a tiny text that is not stored ends in
\* TinyUrlDoesNotExistException, sends no delete request and leaves the
\* bucket as it was.
C6_DeleteMissing ==
    [][\A p \in Callers :
        DeleteOfMissing(p) =>
            /\ pc'[p] = "done"
            /\ outcome'[p] = "TinyUrlDoesNotExistException"
            /\ calls'[p].delete = 0
            /\ bucket' = bucket]_vars

C6_Witness ==
    \E p \in Callers :
        /\ op[p] = "delete"
        /\ pc[p] = "done"
        /\ outcome[p] = "TinyUrlDoesNotExistException"
        /\ tiny_uri[p] \in TinyTexts
        /\ bucket # <<>>

\* C7: validate of a record that has a tiny text answers True exactly when
\* the bucket holds an object under the serialized tiny text whose tiny_url
\* metadata equals the record's url, and False otherwise (its requests
\* being answered by the backend).
C7_Validate ==
    \A p \in Callers :
        (op[p] = "validate" /\ pc[p] = "done" /\ url[p].tiny_text # None
           /\ url[p] # NoURL /\ outcome[p] # BackendError) =>
            outcome[p] = Bool(/\ tiny_key(url[p]) \in DOMAIN bucket
                              /\ bucket[tiny_key(url[p])].tiny_url = url[p].url)

\* validate answered False for a stored tiny url that points elsewhere
C7_Witness ==
    \E p \in Callers :
        /\ op[p] = "validate"
        /\ pc[p] = "done"
        /\ outcome[p] = "False"
        /\ url[p].tiny_text # None
        /\ tiny_key(url[p]) \in DOMAIN bucket
        /\ bucket[tiny_key(url[p])].tiny_url \in Targets \ {url[p].url}

\* the caller passed no identifier: None, the empty string, or a record
\* without a tiny text
AbsentIdentifier(in) ==
    \/ in.form = "str" /\ in.raw \in {None, <<>>}
    \/ in.form = "url" /\ in.raw = None

\* C9: exists of an absent identifier answers False, raises nothing and
\* sends no request.
C9_ExistsAbsent ==
    \A p \in Callers :
        (op[p] = "exists" /\ pc[p] = "done" /\ AbsentIdentifier(input[p])) =>
            outcome[p] = "False" /\ calls[p].exists = 0

\* the part of a raw tiny text the setter validates: what follows the T
\* when there is exactly one T, the whole text otherwise
ShortCode(raw) ==
    IF Cardinality(Ts(raw)) = 1
    THEN SubSeq(raw, (CHOOSE i \in Ts(raw) : TRUE) + 1, Len(raw))
    ELSE raw

\* C10: the tiny_text setter accepts a short code exactly when it is a
\* non-empty string of lowercase letters and digits, digits-only strings
\* included, and raises InvalidTinyTextException for every other string.
C10_AcceptsLowercaseAndDigits ==
    \A p \in Callers :
        (op[p] = "construct" /\ pc[p] = "done" /\ input[p].raw # None
            /\ url_valid(input[p].target)) =>
            LET code == ShortCode(input[p].raw)
            IN  /\ outcome[p] \in {"ok", "InvalidTinyTextException"}
                /\ outcome[p] = "ok" <=>
                      (Len(code) > 0 /\ Range(code) \subseteq (Lowercase \cup Digits))

\* both callers' allocating puts returned, having written under one key
BothWroteSameKey ==
    /\ \A p \in Callers : AutoPut(p) /\ pc[p] = "done" /\ outcome[p] = "ok"
    /\ tiny_key(url[1]) = tiny_key(url[2])

\* C8: two concurrent allocating puts can both adopt the same candidate and
\* both return; the bucket then holds one object under that key, with the
\* url of the put that wrote last.
C8_LastWriteWins ==
    BothWroteSameKey =>
        /\ DOMAIN bucket = {tiny_key(url[1])}
        /\ last_writer \in Callers
        /\ get_metadata(tiny_key(url[1])) = url[last_writer].url

\* both puts saw the key free, both wrote, and caller 1 wrote last over
\* the object of caller 2
C8_Witness ==
    /\ BothWroteSameKey
    /\ \A p \in Callers : calls[p].put = 1 /\ retries[p] = 0
    /\ last_writer = 1
    /\ url[1].url # url[2].url
    /\ get_metadata(tiny_key(url[2])) = url[1].url

\* the valid identifiers: a decimal expiration, possibly empty, and a
\* non-empty short code of lowercase letters and digits
Identifiers ==
    {[expiration |-> e, code |-> c] :
        e \in Strings(Digits, MaxLen),
        c \in Strings(Lowercase \cup Digits, MaxLen) \ {<<>>}}

\* expiration + "T" + short code, or the short code alone
Serialize(i) ==
    IF i.expiration # <<>> THEN i.expiration \o <<"T">> \o i.code ELSE i.code

\* C11: a fresh record constructed for a valid target with the serialized
\* form of a valid identifier has that identifier's expiration and short code, and its
\* tiny_text reads back as the same serialized form.
C11_RoundTrip ==
    \A p \in Callers : \A i \in Identifiers :
        (op[p] = "construct" /\ pc[p] = "done" /\ input[p].raw = Serialize(i)
            /\ url_valid(input[p].target)) =>
            /\ outcome[p] = "ok"
            /\ url[p].expiration = i.expiration
            /\ url[p].tiny_text = i.code
            /\ tiny_text_getter(url[p]) = Serialize(i)

\* caller p holds the string generate_tiny_text returned for its record
Generated(p) == op[p] = "generate" /\ pc[p] = "done"

\* C12 as stated: generate_tiny_text(n) returns a string of exactly n
\* characters, all lowercase letters or digits, for a record with or
\* without an expiration.
C12_GenerateLengthAsStated ==
    \A p \in Callers :
        Generated(p) =>
            /\ Len(tiny_uri[p]) = tiny_text_length[p]
            /\ Range(tiny_uri[p]) \subseteq (Lowercase \cup Digits)

\* C12: generate_tiny_text(n) returns the record's expiration prefix
\* (expiration + "T" when there is an expiration, nothing otherwise)
\* followed by exactly n characters, all lowercase letters or digits.
C12_GenerateLength ==
    \A p \in Callers :
        Generated(p) =>
            LET prefix == expiration_prefix(url[p])
                code == SubSeq(tiny_uri[p], Len(prefix) + 1, Len(tiny_uri[p]))
            IN  /\ tiny_uri[p] = prefix \o code
                /\ Len(code) = tiny_text_length[p]
                /\ Range(code) \subseteq (Lowercase \cup Digits)

\* a record with an expiration was asked for more than one character
C12_Witness ==
    \E p \in Callers :
        /\ Generated(p)
        /\ url[p].expiration # <<>>
        /\ tiny_text_length[p] > 1
        /\ Len(tiny_uri[p]) = Len(url[p].expiration) + 1 + tiny_text_length[p]

\* the keys of the stored objects that carry the tiny_url metadata
TinyKeys == {k \in DOMAIN bucket : bucket[k].tiny_url # ""}

\* C13: list yields one record for every stored object that carries the
\* tiny_url metadata, with that object's key and url, and none for an
\* object without it; an object without the metadata does not end the
\* enumeration.
C13_ListSkipsNonTinys ==
    \A p \in Callers :
        (op[p] = "list" /\ pc[p] = "done" /\ outcome[p] # BackendError) =>
            /\ outcome[p] = "ok"
            /\ Len(yielded[p]) = Cardinality(TinyKeys)
            /\ {tiny_key(yielded[p][i]) : i \in 1..Len(yielded[p])} = TinyKeys
            /\ \A i \in 1..Len(yielded[p]) :
                   yielded[p][i].url = bucket[tiny_key(yielded[p][i])].tiny_url

\* the enumeration met an object without the metadata first and yielded
\* the tiny url that came after it
C13_Witness ==
    \E p \in Callers :
        /\ op[p] = "list" /\ pc[p] = "done" /\ outcome[p] = "ok"
        /\ Len(enumeration[p]) = 2
        /\ enumeration[p][1] \notin TinyKeys
        /\ enumeration[p][2] \in TinyKeys
        /\ Len(yielded[p]) = 1
        /\ tiny_key(yielded[p][1]) = enumeration[p][2]

\* caller p is in, or has finished, the put of a record constructed with a
\* tiny text
SuppliedPut(p) == op[p] = "put" /\ url[p].tiny_text_provided

\* C14: through a put, a record constructed with a tiny text keeps that
\* tiny text and expiration, the allocation loop is never entered for it,
\* and a write of the put changes no object but the one under its key.
C14_SuppliedIdentifierKept ==
    [][\A p \in Callers :
        SuppliedPut(p)' =>
            LET given == record_init(input'[p].target, input'[p].raw,
                                     input'[p].expiration).u
            IN  /\ pc'[p] # "select"
                /\ retries'[p] = 0
                /\ url'[p].tiny_text = given.tiny_text
                /\ url'[p].expiration = given.expiration
                /\ (pc[p] = "write" /\ pc'[p] = "done") =>
                      \A k \in (DOMAIN bucket \cup DOMAIN bucket') \ {tiny_key(given)} :
                          /\ k \in DOMAIN bucket /\ k \in DOMAIN bucket'
                          /\ bucket'[k] = bucket[k]]_vars

\* a put of a supplied tiny text with an expiration wrote under that key
\* beside another object
C14_Witness ==
    \E p \in Callers :
        /\ SuppliedPut(p)
        /\ pc[p] = "done" /\ outcome[p] = "ok" /\ calls[p].put = 1
        /\ input[p].raw = <<"5", "T", "a">>
        /\ DOMAIN bucket = {<<"5", "T", "a">>, <<"a">>}

\* C15: the candidate an allocation generates after c collisions has
\* initial_tiny_length + max(0, c - 2) characters, in every controller.
C15_LengthPerDocstring ==
    \A p \in Callers :
        Adopted(p) =>
            Len(url[p].tiny_text) = initial_tiny_length + Max(0, retries[p] - 2)

\* C16: get of a tiny uri under which nothing is stored, or whose object
\* has no tiny_url metadata, raises TinyUrlDoesNotExistException; it does
\* not complete with a return value.
C16_GetMissingRaises ==
    \A p \in Callers :
        (op[p] = "get" /\ pc[p] = "done" /\ tiny_uri[p] \notin TinyKeys) =>
            outcome[p] = "TinyUrlDoesNotExistException"

\* the step is one in which a request of caller p's operation raised a
\* backend error
RequestFailed(p) ==
    \/ FailedRequest(p)
    \/ \E name \in {"exists", "delete", "validate"} :
          \E i \in FailureInputs : FailedCall(p, name, i)

\* C17: a backend error raised by a request of put, delete, exists or
\* validate ends the operation at once with that error: no collision is
\* counted, nothing is stored or deleted, no request is left to send and
\* no result is returned.
C17_BackendErrorPropagates ==
    [][\A p \in Callers :
        RequestFailed(p) =>
            /\ pc'[p] = "done"
            /\ outcome'[p] = BackendError
            /\ retries'[p] = retries[p]
            /\ bucket' = bucket
            /\ next_request(p)' = "none"]_vars

\* the second existence check of an allocation failed after one collision
C17_Witness ==
    \E p \in Callers :
        /\ AutoPut(p) /\ pc[p] = "done" /\ outcome[p] = BackendError
        /\ retries[p] = 1
        /\ calls[p] = [exists |-> 2, put |-> 0, delete |-> 0]

\* C18: an operation one of whose requests raised a backend error ends
\* with FailedTinyActionError, not with the storage client's exception.
C18_GenericBackendError ==
    [][\A p \in Callers :
        RequestFailed(p) =>
            pc'[p] = "done" /\ outcome'[p] = "FailedTinyActionError"]_vars


\* caller p's construction of a record has ended
Constructed(p) == op[p] = "construct" /\ pc[p] = "done"

\* C19: constructing a record raises InvalidURLException whenever the
\* target fails _url_valid, whatever tiny text comes with it, and
\* InvalidTinyTextException when the target is valid and the short code of
\* the tiny text given is empty or has a character that is neither a
\* lowercase letter nor a digit; either way there is no record and no
\* request has gone to the backend.
C19_ConstructionErrors ==
    \A p \in Callers :
        Constructed(p) =>
            LET target == input[p].target
                raw == input[p].raw
                bad_text ==
                    /\ raw # None
                    /\ ~(/\ Len(ShortCode(raw)) > 0
                         /\ Range(ShortCode(raw)) \subseteq (Lowercase \cup Digits))
            IN  /\ ~url_valid(target) => outcome[p] = "InvalidURLException"
                /\ (url_valid(target) /\ bad_text) =>
                      outcome[p] = "InvalidTinyTextException"
                /\ (~url_valid(target) \/ bad_text) =>
                      url[p] = NoURL /\ calls[p] = NoCalls

\* a target that fails validation came with a tiny text that fails too
C19_Witness ==
    \E p \in Callers :
        /\ Constructed(p)
        /\ input[p].target = "ftp:/bad"
        /\ input[p].raw = <<"B">>
        /\ outcome[p] = "InvalidURLException"
        /\ url[p] = NoURL

\* the targets put together from a scheme http, https, ftp or ftps, "://",
\* a dotted domain, localhost or a dotted quad, a numeric port or none, and
\* a path or query or none
WellFormedTargets ==
    {Join(x) : x \in
        {y \in TargetParts :
            /\ y.scheme \in {"http", "https", "ftp", "ftps", "HTTP"}
            /\ y.separator = "://"
            /\ y.host \in {"example.com", "localhost", "192.168.0.1"}
            /\ y.port \in {"", ":8080"}
            /\ y.path \in {"", "/", "/path", "?q=1"}
            /\ y.ending = ""}}

\* C20: _url_valid accepts "http://example.com/path" and
\* "https://192.168.0.1:8080/", rejects "not-a-url" and "ftp:/bad", and
\* accepts no target but one made of a scheme http, https, ftp or ftps,
\* "://", a host that is a dotted domain, localhost or a dotted quad, an
\* optional numeric port and an optional path or query.
C20_UrlValidation ==
    \A p \in Callers :
        Constructed(p) =>
            LET target == input[p].target
                accepted == outcome[p] # "InvalidURLException"
            IN  /\ target \in {"http://example.com/path",
                               "https://192.168.0.1:8080/"} => accepted
                /\ target \in {"not-a-url", "ftp:/bad"} => ~accepted
                /\ (accepted /\ target \in JoinedTargets) =>
                      target \in WellFormedTargets


\* caller p's put enters its allocation loop in this step
AllocationBegins(p) == pc[p] # "select" /\ pc'[p] = "select"

\* C21: no step of any operation changes initial_tiny_length, max_retries
\* or overwrite; every allocation begins with retries = 0 at length
\* initial_tiny_length, and its first candidate has initial_tiny_length
\* characters.
C21_ConfigurationKept ==
    [][/\ config' = config
       /\ \A p \in Callers :
            /\ AllocationBegins(p) =>
                  /\ retries'[p] = 0
                  /\ tiny_text_length'[p] = initial_tiny_length
            /\ (AutoPut(p) /\ pc[p] = "select" /\ retries[p] = 0
                /\ url'[p].tiny_text # None) =>
                  Len(url'[p].tiny_text) = initial_tiny_length]_vars

\* an allocation begins afresh while the bucket holds a tiny url whose
\* key an earlier allocation had lengthened
C21_Witness ==
    \E p \in Callers :
        /\ AutoPut(p) /\ pc[p] = "select"
        /\ retries[p] = 0 /\ tiny_text_length[p] = initial_tiny_length
        /\ \E k \in DOMAIN bucket :
               /\ Len(k) > initial_tiny_length
               /\ "T" \notin Range(k)
               /\ bucket[k].tiny_url # ""


\* the configuration passes the schema and has at most one of the storage
\* sections
WholeValid(c) ==
    schema_valid(c) /\ ~({"s3", "rcf"} \subseteq Sections(c))

\* C22: write puts nothing into the file unless the configuration it is
\* called on passes the schema and has at most one storage section: on
\* any other configuration it raises MultipleInvalid and the file is as it
\* was; what a write does put there is that configuration.
C22_WriteOnlyValid ==
    [][method' = "write" =>
          /\ fp' # fp => WholeValid(configuration)
          /\ ~WholeValid(configuration) =>
                exception' = "MultipleInvalid" /\ fp' = fp
          /\ fp' \in {fp, file_lines(configuration)}]_vars

\* write refused a configuration, built by set calls in bootstrap mode,
\* whose sections all pass the schema but which has both storage sections
C22_Witness ==
    /\ method = "write"
    /\ exception = "MultipleInvalid"
    /\ bootstrap
    /\ schema_valid(configuration)
    /\ {"s3", "rcf"} \subseteq Sections(configuration)
    /\ fp = {}

\* C23: the configuration never holds a (section, option) key that the
\* schema does not allow, and a set call that raises MultipleInvalid
\* leaves the configuration as it was.
C23_NoInvalidOptionSet ==
    [][/\ DOMAIN configuration' \subseteq AllowedKeys
       /\ (method' = "set" /\ exception' = "MultipleInvalid") =>
              configuration' = configuration]_vars


\* C24: a put that allocates its tiny text ends with success, with the
\* exhaustion error of its controller or with a backend error; no
\* candidate the loop generates is refused by the tiny_text setter.
C24_CandidatesAccepted ==
    \A p \in Callers :
        (AutoPut(p) /\ pc[p] = "done") =>
            outcome[p] \in {"ok", "TooManyNameCollisions",
                            "UnableToAutogenerateTinyText", BackendError}


\* the step is the return of caller p's delete from its delete request
DeleteReturns(p) ==
    pc[p] = "delete_key" /\ pc'[p] = "done" /\ outcome'[p] = "ok"

\* C25: when delete(x) returns, no object is stored under the serialized
\* tiny text of x and every other object is stored as before.
C25_DeleteRemovesOnlyTarget ==
    [][\A p \in Callers :
        DeleteReturns(p) =>
            /\ tiny_uri[p] \notin DOMAIN bucket'
            /\ \A k \in DOMAIN bucket \ {tiny_uri[p]} :
                   k \in DOMAIN bucket' /\ bucket'[k] = bucket[k]]_vars


\* the errors with which an allocation gives up
Exhaustion == {"TooManyNameCollisions", "UnableToAutogenerateTinyText"}

\* the step is one of caller p's allocation loop whose existence check,
\* if it makes one, is answered
LoopStep(p) ==
    /\ AutoPut(p) /\ pc[p] = "select"
    /\ <<pc[p], retries[p], calls[p]>> # <<pc'[p], retries'[p], calls'[p]>>
    /\ outcome'[p] # BackendError

\* C26: the allocation loop makes at most max_retries existence checks and
\* leaves with a candidate adopted or with the exhaustion error; with
\* max_retries = 0 it raises the exhaustion error without a check.
C26_LoopBounded ==
    [][\A p \in Callers :
        LoopStep(p) =>
            /\ calls'[p].exists <= max_retries
            /\ \/ pc'[p] \in {"select", "check", "write"}
               \/ pc'[p] = "done" /\ outcome'[p] \in Exhaustion
            /\ max_retries = 0 =>
                  /\ pc'[p] = "done" /\ outcome'[p] \in Exhaustion
                  /\ calls'[p].exists = 0]_vars


\* the candidates the next turn of caller p's allocation loop can generate
Candidates(p) ==
    IF kind = Legacy THEN generate_tiny_text(url[p], tiny_text_length[p])
    ELSE URL_generate_tiny_text(url[p], initial_tiny_length)

\* the step is the one in which caller p's allocation loop adopts a
\* candidate
Adopts(p) == AutoPut(p) /\ pc[p] = "select" /\ pc'[p] \in {"check", "write"}

\* C27: the tiny text an allocation leaves on the record is the candidate
\* of its last turn, for which exists answered false in that turn; the
\* record keeps it until the write, and the write stores under it.
C27_AdoptedWasFree ==
    [][\A p \in Callers :
        /\ Adopts(p) =>
              /\ tiny_key(url'[p]) \in Candidates(p)
              /\ tiny_key(url'[p]) \notin DOMAIN bucket
              /\ calls'[p].exists = calls[p].exists + 1
        /\ (AutoPut(p) /\ pc[p] = "select" /\ pc'[p] = "select"
            /\ retries'[p] = retries[p] + 1) =>
              \E c \in Candidates(p) : c \in DOMAIN bucket
        /\ (AutoPut(p) /\ pc[p] \in {"check", "write"} /\ pc'[p] # "idle") =>
              url'[p].tiny_text = url[p].tiny_text
        /\ (AutoPut(p) /\ pc[p] = "write" /\ outcome'[p] = "ok") =>
              /\ DOMAIN bucket' = DOMAIN bucket \cup {tiny_key(url[p])}
              /\ bucket'[tiny_key(url[p])].tiny_url = url[p].url]_vars

\* after a collision the allocation adopted a candidate the bucket does
\* not hold
C27_Witness ==
    \E p \in Callers :
        /\ AutoPut(p) /\ pc[p] = "write"
        /\ retries[p] >= 1
        /\ tiny_key(url[p]) \notin DOMAIN bucket
        /\ bucket # <<>>


\* C28: validate of a record ends with True or False, whatever a
\* concurrent delete of the same tiny text does between its requests.
C28_ValidateNeverRaises ==
    \A p \in Callers :
        (op[p] = "validate" /\ pc[p] = "done") => outcome[p] \in {"True", "False"}

\* C29: a delete of the S3 controllers returns successfully only if the
\* key was stored when its delete request was served, so that of two
\* concurrent deletes of one stored tiny text one returns and the other
\* raises TinyUrlDoesNotExistException.
C29_OneDeleteSucceeds ==
    [][\A p \in Callers :
        (kind # RCF /\ op[p] = "delete" /\ pc[p] = "delete_key" /\ pc'[p] = "done") =>
            IF tiny_uri[p] \in DOMAIN bucket
            THEN outcome'[p] = "ok"
            ELSE outcome'[p] = "TinyUrlDoesNotExistException"]_vars

\* C30: with overwrite = False, a put of a supplied tiny text that
\* returns successfully has written under a key that held nothing, so that
\* of concurrent puts of one tiny text at most one returns and its object
\* is not replaced.
C30_NoConcurrentOverwrite ==
    [][\A p \in Callers :
        (~overwrite /\ SuppliedPut(p) /\ pc[p] = "write" /\ outcome'[p] = "ok") =>
            /\ tiny_key(url[p]) \notin DOMAIN bucket
            /\ \A q \in Callers \ {p} :
                   ~(SuppliedPut(q) /\ pc[q] = "done" /\ outcome[q] = "ok"
                     /\ tiny_key(url[q]) = tiny_key(url[p]))]_vars


\* the step is an assignment to caller p's record that raised
AssignmentRaised(p) ==
    /\ op'[p] = "assign" /\ outcome'[p] = "InvalidTinyTextException"
    /\ <<op[p], input[p], url[p], outcome[p]>> # <<op'[p], input'[p], url'[p], outcome'[p]>>

\* C31: an assignment of tiny_text that raises InvalidTinyTextException
\* leaves the record's expiration and short code as they were.
C31_FailedAssignmentKeepsRecord ==
    [][\A p \in Callers :
        AssignmentRaised(p) =>
            /\ url'[p].expiration = url[p].expiration
            /\ url'[p].tiny_text = url[p].tiny_text]_vars

\* C32: the expiration of every record constructed or assigned to is empty
\* or a string of decimal digits.
C32_ExpirationDecimal ==
    \A p \in Callers :
        (op[p] \in {"construct", "assign"} /\ pc[p] = "done" /\ outcome[p] = "ok") =>
            Range(url[p].expiration) \subseteq Digits


\* an auto-allocating put: the caller passed a record without a tiny text
AutoAllocating(p) == op[p] = "put" /\ input[p].raw = None

\* C33: after an auto-allocating put that failed with a backend error,
\* raised by an existence check or by the write, the record has no tiny
\* text assigned, as after allocation exhaustion.
C33_BackendErrorClearsIdentifier ==
    \A p \in Callers :
        (AutoAllocating(p) /\ pc[p] = "done" /\ outcome[p] = BackendError) =>
            url[p].tiny_text = None


ReadOperations == {"exists", "validate", "list", "get"}

\* caller p takes a step of the operation it is in after the step
Moves(p) ==
    /\ op'[p] # "none"
    /\ <<pc[p], op[p], input[p], outcome[p], calls[p], cursor[p]>> #
           <<pc'[p], op'[p], input'[p], outcome'[p], calls'[p], cursor'[p]>>

\* the record handed to the call the step begins or continues
Passed(p) ==
    IF op[p] = op'[p] /\ pc[p] \notin {"idle", "done"} THEN url[p]
    ELSE IF input'[p].form = "same" THEN url[p]
    ELSE url'[p]

\* C34: no step of exists, validate, list or get, whatever it returns or
\* raises, changes the stored keys, a stored object's metadata or content,
\* or the tiny text, expiration and target of the record passed in; a put
\* that ends in TinyURLExistsException and a delete that ends in
\* TinyUrlDoesNotExistException have sent no write or delete request, and
\* the steps of a put or delete before that request leave the store as it
\* was.
C34_ReadOnly ==
    [][\A p \in Callers :
        Moves(p) =>
            /\ op'[p] \in ReadOperations =>
                  /\ bucket' = bucket
                  /\ op'[p] \in {"exists", "validate"} =>
                        /\ url'[p].tiny_text = Passed(p).tiny_text
                        /\ url'[p].expiration = Passed(p).expiration
                        /\ url'[p].url = Passed(p).url
            /\ (op'[p] = "put" /\ calls'[p].put = 0) => bucket' = bucket
            /\ (op'[p] = "delete" /\ calls'[p].delete = 0) => bucket' = bucket
            /\ (op'[p] = "put" /\ outcome'[p] = "TinyURLExistsException") =>
                  calls'[p].put = 0
            /\ (op'[p] = "delete" /\ outcome'[p] = "TinyUrlDoesNotExistException") =>
                  calls'[p].delete = 0]_vars

\* validate of the record a put has stored answered True, with the record
\* and the store as they were
C34_Witness ==
    \E p \in Callers :
        /\ op[p] = "validate" /\ input[p].form = "same"
        /\ pc[p] = "done" /\ outcome[p] = "True"
        /\ url[p].tiny_text # None
        /\ tiny_key(url[p]) \in DOMAIN bucket


\* the keys of the objects list has yielded a record for so far: the keys
\* handed out up to the cursor that carry the tiny_url metadata
YieldedKeys(p) == SelectSeq(SubSeq(enumeration[p], 1, cursor[p]), has_tiny_url)

\* every stored object was written by put
OnlyTinyURLs == \A k \in DOMAIN bucket : has_tiny_url(k)

\* exists(u) and validate(u) as a caller would be answered now
ExistsAndValid(u) ==
    /\ exists(tiny_key(u))
    /\ metadata_matches(tiny_key(u), u)

\* C35: in a store written by put and delete alone, with one caller, every
\* record list has yielded exists and validates, and its serialized
\* identifier (expiration prefix included) is the key of the object it was
\* built from.
C35_ListedRecordsValid ==
    \A p \in Callers :
        (op[p] = "list" /\ OnlyTinyURLs) =>
            /\ Len(yielded[p]) = Len(YieldedKeys(p))
            /\ \A i \in 1..Len(yielded[p]) :
                  /\ tiny_key(yielded[p][i]) = YieldedKeys(p)[i]
                  /\ ExistsAndValid(yielded[p][i])

\* list has yielded the record of an object stored with an expiration
\* prefix in its key
C35_Witness ==
    \E p \in Callers :
        /\ op[p] = "list" /\ pc[p] = "done" /\ outcome[p] = "ok" /\ OnlyTinyURLs
        /\ \E i \in 1..Len(yielded[p]) : yielded[p][i].expiration # <<>>


\* C36: list does not abort when an object is deleted by another caller
\* between the bucket enumeration and the object's metadata fetch: in
\* every interleaving of list with delete on the S3 controllers the
\* enumeration runs to its end.
C36_ListSurvivesDelete ==
    \A p \in Callers :
        (kind # RCF /\ op[p] = "list" /\ pc[p] = "done") => outcome[p] = "ok"


\* the call of an operation with a tiny text string
ByName(x) == [form |-> "str", target |-> "", raw |-> x, expiration |-> None]

\* caller p begins exists or delete with a record that has a tiny text
\* assigned, and the first request is answered
CalledWithRecord(p) ==
    /\ Moves(p)
    /\ pc[p] \in {"idle", "done"}
    /\ op'[p] \in {"exists", "delete"}
    /\ input'[p].form \in {"url", "same"}
    /\ ~arg_record(p, input'[p]).raised
    /\ arg_record(p, input'[p]).u.tiny_text # None
    /\ outcome'[p] # BackendError

\* C37: exists and delete called with a record that has a tiny text
\* assigned do what they do when called with the record's serialized
\* identifier string: the same name reaches the backend, exists gives the
\* same answer, and delete raises or goes on to remove the same key.
C37_RecordOrName ==
    [][\A p \in Callers :
        CalledWithRecord(p) =>
            LET a == Resolve(p, input'[p])
                x == tiny_key(arg_record(p, input'[p]).u)
                b == Resolve(p, ByName(x))
            IN  /\ a.raised = b.raised
                /\ a.x = b.x
                /\ op'[p] = "exists" => outcome'[p] = Bool(exists(b.x))
                /\ op'[p] = "delete" =>
                      /\ tiny_uri'[p] = b.x
                      /\ IF exists(b.x) THEN pc'[p] = "delete_key"
                         ELSE outcome'[p] = "TinyUrlDoesNotExistException"
                /\ bucket' = bucket]_vars

\* delete was called with the record a put stored under a key with an
\* expiration prefix, and went on to its delete request
C37_Witness ==
    \E p \in Callers :
        /\ op[p] = "delete" /\ input[p].form = "same" /\ pc[p] = "delete_key"
        /\ url[p].expiration # <<>>
        /\ tiny_uri[p] = tiny_key(url[p])


\* the record as it was before the step of a put: at the call, the record
\* the caller constructed and has not yet handed over
BeforePut(p) ==
    IF pc[p] \in {"idle", "done"}
    THEN record_init(input'[p].target, input'[p].raw, input'[p].expiration).u
    ELSE url[p]

\* C38: put sets the record's last_modified only in the step in which the
\* backend write went through; after a put that ended in
\* TinyURLExistsException, in allocation exhaustion or in an error of the
\* write, last_modified is what it was before the call.
C38_LastModifiedAfterWrite ==
    [][\A p \in Callers :
        (Moves(p) /\ op'[p] = "put" /\ url'[p] # NoURL) =>
            /\ url'[p].last_modified # BeforePut(p).last_modified =>
                  /\ pc[p] = "write"
                  /\ outcome'[p] = "ok"
                  /\ tiny_key(url[p]) \in DOMAIN bucket'
                  /\ bucket'[tiny_key(url[p])].tiny_url = url[p].url
            /\ (pc'[p] = "done" /\ outcome'[p] # "ok") =>
                  url'[p].last_modified = "None"]_vars

\* a put of the controllers package whose write request raised has left
\* the record unstamped
C38_Witness ==
    \E p \in Callers :
        /\ kind # Legacy
        /\ op[p] = "put" /\ pc[p] = "done" /\ outcome[p] = BackendError
        /\ calls[p].put = 1
        /\ url[p] # NoURL /\ url[p].last_modified = "None"
=============================================================================
